---- MODULE Spec2Model ----
(***************************************************************************)
(* A model of pyddp (src/src/ddp.py): the DDP message classes, the pod     *)
(* factories that convert between messages and pods, the aggregate         *)
(* factories that route by discriminant or by class, the message web       *)
(* socket client, DdpConnection and Future.                                *)
(*                                                                         *)
(* Python values are tagged records, so that None, strings and lists can   *)
(* be compared with one another.  A pod (a Python dict) is the sequence of *)
(* its items in the order the code inserts them; lookups go by key.  A     *)
(* call either returns a value, Ok(v), or raises, Raise(e).                *)
(***************************************************************************)
EXTENDS Integers, Sequences, FiniteSets, TLC

\* ------------------------------------------------------------------------
\* Bounds of the model
\* ------------------------------------------------------------------------

\* Longest `support` list given to ConnectMessage.
MaxSupport == 2

\* ------------------------------------------------------------------------
\* Python values
\* ------------------------------------------------------------------------

None == [t |-> "none", s |-> "", l |-> <<>>]

Str(x) == [t |-> "str", s |-> x, l |-> <<>>]

\* A list of strings.
List(q) == [t |-> "list", s |-> "", l |-> q]

\* True and False
Bool(b) == [t |-> "bool", s |-> IF b THEN "True" ELSE "False", l |-> <<>>]

\* A mapping whose content the code never looks into.
Map(x) == [t |-> "map", s |-> x, l |-> <<>>]

Ok(v) == [ok |-> TRUE, v |-> v]

Raise(e) == [ok |-> FALSE, exc |-> e]

\* exists(obj): obj is not None
exists(obj) == obj # None

\* nexists(iterable): how many items are not None
RECURSIVE nexists(_)
nexists(iterable) ==
    IF iterable = <<>> THEN 0
    ELSE (IF exists(Head(iterable)) THEN 1 ELSE 0) + nexists(Tail(iterable))

\* x in q, for a Python list q
Contains(q, x) == \E i \in 1..Len(q) : q[i] = x

\* list.remove(x): the list without the first item equal to x
RECURSIVE ListRemove(_, _)
ListRemove(q, x) ==
    IF q = <<>> THEN <<>>
    ELSE IF Head(q) = x THEN Tail(q)
    ELSE <<Head(q)>> \o ListRemove(Tail(q), x)

\* ------------------------------------------------------------------------
\* Message classes: a message is the record of its class and attributes
\* ------------------------------------------------------------------------

\* ConnectMessage.__init__ without `if not support: support = None`: a
\* list that the removal empties is stored as an empty list.
ConnectMessageKeepsEmpty(version, support, session) ==
    LET listed == IF support # None THEN support.l ELSE <<>>
        removed == IF Contains(listed, version.s)
                   THEN ListRemove(listed, version.s) ELSE listed
        stored == IF support = None THEN None ELSE List(removed)
    IN  Ok([cls |-> "ConnectMessage", version |-> version,
            support |-> stored, session |-> session])

ConnectMessage(version, support, session) ==
    LET listed == IF support # None THEN support.l ELSE <<>>
        removed == IF Contains(listed, version.s)
                   THEN ListRemove(listed, version.s) ELSE listed
        stored == IF support = None \/ removed = <<>> THEN None
                  ELSE List(removed)
    IN  Ok([cls |-> "ConnectMessage", version |-> version,
            support |-> stored, session |-> session])

MethodMessage(id_, method, params) ==
    Ok([cls |-> "MethodMessage", id |-> id_, method |-> method,
        params |-> params])

SubMessage(id_, name, params) ==
    Ok([cls |-> "SubMessage", id |-> id_, name |-> name, params |-> params])

UnsubMessage(id_) == Ok([cls |-> "UnsubMessage", id |-> id_])

AddedMessage(collection, id_, fields) ==
    Ok([cls |-> "AddedMessage", collection |-> collection, id |-> id_,
        fields |-> fields])

AddedBeforeMessage(collection, id_, before, fields) ==
    Ok([cls |-> "AddedBeforeMessage", collection |-> collection, id |-> id_,
        before |-> before, fields |-> fields])

ChangedMessage(collection, id_, cleared, fields) ==
    Ok([cls |-> "ChangedMessage", collection |-> collection, id |-> id_,
        cleared |-> cleared, fields |-> fields])

ConnectedMessage(session) ==
    Ok([cls |-> "ConnectedMessage", session |-> session])

ErrorMessage(reason, offending_pod) ==
    Ok([cls |-> "ErrorMessage", reason |-> reason,
        offending_pod |-> offending_pod])

FailedMessage(version) == Ok([cls |-> "FailedMessage", version |-> version])

MovedBeforeMessage(collection, id_, before) ==
    Ok([cls |-> "MovedBeforeMessage", collection |-> collection, id |-> id_,
        before |-> before])

NosubMessage(id_, error) ==
    Ok([cls |-> "NosubMessage", id |-> id_, error |-> error])

ReadyMessage(subs) == Ok([cls |-> "ReadyMessage", subs |-> subs])

RemovedMessage(collection, id_) ==
    Ok([cls |-> "RemovedMessage", collection |-> collection, id |-> id_])

ResultMessage(id_, error, result) ==
    IF nexists(<<error, result>>) # 1 THEN Raise("ValueError")
    ELSE Ok([cls |-> "ResultMessage", id |-> id_, error |-> error,
             result |-> result])

UpdatedMessage(methods) == Ok([cls |-> "UpdatedMessage", methods |-> methods])

\* ChangedMessage of ddp/message/server/changed_message.py, a class of its
\* own
changed_message_ChangedMessage(collection, id_, cleared, fields) ==
    Ok([cls |-> "changed_message.ChangedMessage", collection |-> collection,
        id |-> id_, cleared |-> cleared, fields |-> fields])

ClientMessageClasses ==
    {"ConnectMessage", "MethodMessage", "SubMessage", "UnsubMessage"}

ServerMessageClasses ==
    {"AddedMessage", "AddedBeforeMessage", "ChangedMessage",
     "ConnectedMessage", "ErrorMessage", "FailedMessage",
     "MovedBeforeMessage", "NosubMessage", "ReadyMessage", "RemovedMessage",
     "ResultMessage", "UpdatedMessage"}

\* The attributes each class's __eq__ compares, in the order of its `and`s.
EqAttributes(cls) ==
    CASE cls = "ConnectMessage" -> <<"version", "support", "session">>
      [] cls = "MethodMessage" -> <<"id", "method", "params">>
      [] cls = "SubMessage" -> <<"id", "name", "params">>
      [] cls = "UnsubMessage" -> <<"id">>
      [] cls = "AddedMessage" -> <<"collection", "id", "fields">>
      [] cls = "AddedBeforeMessage" ->
             <<"collection", "id", "before", "fields">>
      [] cls \in {"ChangedMessage", "changed_message.ChangedMessage"} ->
             <<"collection", "id", "cleared", "fields">>
      [] cls = "ConnectedMessage" -> <<"session">>
      [] cls = "ErrorMessage" -> <<"reason", "offending_pod">>
      [] cls = "FailedMessage" -> <<"version">>
      [] cls = "MovedBeforeMessage" -> <<"collection", "id", "before">>
      [] cls = "NosubMessage" -> <<"id", "error">>
      [] cls = "ReadyMessage" -> <<"subs">>
      [] cls = "RemovedMessage" -> <<"collection", "id">>
      [] cls = "ResultMessage" -> <<"id", "error", "result">>
      [] cls = "UpdatedMessage" -> <<"methods">>

\* a == b as the classes' __eq__ evaluate it: the attributes are compared
\* left to right, the first unequal pair ends the chain with False, and
\* an attribute the other object does not have raises AttributeError.
RECURSIVE EqChain(_, _, _)
EqChain(self, other, attrs) ==
    IF attrs = <<>> THEN "True"
    ELSE IF Head(attrs) \notin DOMAIN other THEN "AttributeError"
    ELSE IF self[Head(attrs)] # other[Head(attrs)] THEN "False"
    ELSE EqChain(self, other, Tail(attrs))

\* self == other: the chain of the class of self; the ChangedMessage of
\* changed_message.py tests isinstance(other, ChangedMessage) first.
MessageEq(self, other) ==
    IF self.cls = "changed_message.ChangedMessage" /\ other.cls # self.cls
    THEN "False"
    ELSE EqChain(self, other, EqAttributes(self.cls))

\* What the expression a == b gives its caller: True, False or an
\* exception.
Equals(a, b) ==
    IF MessageEq(a, b) = "AttributeError" THEN Raise("AttributeError")
    ELSE Ok(Bool(MessageEq(a, b) = "True"))

\* The attributes of each class that may be left out.
OptionalAttributes(cls) ==
    CASE cls = "ConnectMessage" -> {"support", "session"}
      [] cls = "SubMessage" -> {"params"}
      [] cls \in {"AddedMessage", "AddedBeforeMessage"} -> {"fields"}
      [] cls \in {"ChangedMessage", "changed_message.ChangedMessage"} ->
             {"cleared", "fields"}
      [] cls = "NosubMessage" -> {"error"}
      [] cls = "ResultMessage" -> {"error", "result"}
      [] OTHER -> {}

\* message.has_<attr>(): `self._<attr> is not None` in ddp.py;
\* `exists(self._<attr>)` in changed_message.py, which neither defines nor
\* imports exists.
HasField(message, attr) ==
    IF message.cls = "changed_message.ChangedMessage" THEN Raise("NameError")
    ELSE Ok(Bool(message[attr] # None))

\* message.<attr>, the property of an optional attribute: in ddp.py it
\* raises AttributeError unless has_<attr>(); in changed_message.py it
\* returns copy(self._<attr>) without a test.
Property(message, attr) ==
    IF message.cls = "changed_message.ChangedMessage" THEN Ok(message[attr])
    ELSE IF message[attr] = None THEN Raise("AttributeError")
    ELSE Ok(message[attr])

\* The attributes of each class that hold a list or a mapping.
CollectionAttributes(cls) ==
    CASE cls = "ConnectMessage" -> {"support"}
      [] cls \in {"MethodMessage", "SubMessage"} -> {"params"}
      [] cls \in {"AddedMessage", "AddedBeforeMessage"} -> {"fields"}
      [] cls \in {"ChangedMessage", "changed_message.ChangedMessage"} ->
             {"cleared", "fields"}
      [] cls = "ReadyMessage" -> {"subs"}
      [] cls = "UpdatedMessage" -> {"methods"}
      [] OTHER -> {}

\* __init__ stores the very object it was given under this attribute:
\* never, each __init__ stores copy(argument) or list(argument).
StoresArgument(cls, attr) == FALSE

\* The property returns the stored object itself (`return self._support`,
\* `return self._params`) instead of a copy of it.
ReturnsStored(cls, attr) ==
    \/ cls = "ConnectMessage" /\ attr = "support"
    \/ cls = "SubMessage" /\ attr = "params"

\* A list after append("z"), a mapping after an item assignment
Mutated(value) ==
    IF value.t = "list" THEN List(Append(value.l, "z")) ELSE Map("mutated")

\* ------------------------------------------------------------------------
\* Message constants
\* ------------------------------------------------------------------------

MSG_CONNECT == "connect"
MSG_METHOD == "method"
MSG_SUB == "sub"
MSG_UNSUB == "unsub"
MSG_ADDED == "added"
MSG_ADDED_BEFORE == "addedBefore"
MSG_CHANGED == "changed"
MSG_CONNECTED == "connected"
MSG_ERROR == "error"
MSG_FAILED == "failed"
MSG_MOVED_BEFORE == "movedBefore"
MSG_NOSUB == "nosub"
MSG_READY == "ready"
MSG_REMOVED == "removed"
MSG_RESULT == "result"
MSG_UPDATED == "updated"

\* ------------------------------------------------------------------------
\* Pods
\* ------------------------------------------------------------------------

Item(k, v) == [k |-> k, v |-> v]

PodKeys(pod) == {pod[i].k : i \in 1..Len(pod)}

\* k in pod
PodHas(pod, k) == k \in PodKeys(pod)

\* pod[k], for a key the pod has
PodIndex(pod, k) == pod[CHOOSE i \in 1..Len(pod) : pod[i].k = k].v

\* pod.get(k)
PodGet(pod, k) == IF PodHas(pod, k) THEN PodIndex(pod, k) ELSE None

\* pod[k] = v on a pod that has no key k yet
PodSet(pod, k, v) == Append(pod, Item(k, v))

\* The pod with `k: v` added when `present` holds.
PodSetIf(pod, present, k, v) == IF present THEN PodSet(pod, k, v) ELSE pod

\* Two pods are equal as dicts: the same keys, the same value under each.
PodEq(p, q) ==
    /\ PodKeys(p) = PodKeys(q)
    /\ \A k \in PodKeys(p) : PodIndex(p, k) = PodIndex(q, k)

\* pod[k] raises KeyError for some k of `required`
MissingKey(pod, required) == \E k \in required : ~PodHas(pod, k)

\* ------------------------------------------------------------------------
\* Client message factories
\* ------------------------------------------------------------------------

ConnectMessageFactory(pod) ==
    IF MissingKey(pod, {"version"}) THEN Raise("KeyError")
    ELSE ConnectMessage(PodIndex(pod, "version"), PodGet(pod, "support"),
                        PodGet(pod, "session"))

PodConnectMessageFactory(message) ==
    LET pod == <<Item("msg", Str(MSG_CONNECT)),
                 Item("version", message.version)>>
        pod1 == PodSetIf(pod, message.support # None, "support",
                         message.support)
    IN  Ok(PodSetIf(pod1, message.session # None, "session", message.session))

MethodMessageFactory(pod) ==
    IF MissingKey(pod, {"id", "method", "params"}) THEN Raise("KeyError")
    ELSE MethodMessage(PodIndex(pod, "id"), PodIndex(pod, "method"),
                       PodIndex(pod, "params"))

PodMethodMessageFactory(message) ==
    Ok(<<Item("msg", Str(MSG_METHOD)), Item("id", message.id),
         Item("method", message.method), Item("params", message.params)>>)

SubMessageFactory(pod) ==
    IF MissingKey(pod, {"id", "name"}) THEN Raise("KeyError")
    ELSE SubMessage(PodIndex(pod, "id"), PodIndex(pod, "name"),
                    PodGet(pod, "params"))

PodSubMessageFactory(message) ==
    LET pod == <<Item("msg", Str(MSG_SUB)), Item("id", message.id),
                 Item("name", message.name)>>
    IN  Ok(PodSetIf(pod, message.params # None, "params", message.params))

UnsubMessageFactory(pod) ==
    IF MissingKey(pod, {"id"}) THEN Raise("KeyError")
    ELSE UnsubMessage(PodIndex(pod, "id"))

PodUnsubMessageFactory(message) ==
    Ok(<<Item("msg", Str(MSG_UNSUB)), Item("id", message.id)>>)

\* ------------------------------------------------------------------------
\* Server message factories
\* ------------------------------------------------------------------------

AddedMessageFactory(pod) ==
    IF MissingKey(pod, {"collection", "id"}) THEN Raise("KeyError")
    ELSE AddedMessage(PodIndex(pod, "collection"), PodIndex(pod, "id"),
                      PodGet(pod, "fields"))

PodAddedMessageFactory(message) ==
    LET pod == <<Item("msg", Str(MSG_ADDED)), Item("id", message.id),
                 Item("collection", message.collection)>>
    IN  Ok(PodSetIf(pod, message.fields # None, "fields", message.fields))

AddedBeforeMessageFactory(pod) ==
    IF MissingKey(pod, {"collection", "id", "before"}) THEN Raise("KeyError")
    ELSE AddedBeforeMessage(PodIndex(pod, "collection"), PodIndex(pod, "id"),
                            PodIndex(pod, "before"), PodGet(pod, "fields"))

PodAddedBeforeMessageFactory(message) ==
    LET pod == <<Item("msg", Str(MSG_ADDED_BEFORE)),
                 Item("collection", message.collection),
                 Item("id", message.id), Item("before", message.before)>>
    IN  Ok(PodSetIf(pod, message.fields # None, "fields", message.fields))

ChangedMessageFactory(pod) ==
    IF MissingKey(pod, {"collection", "id"}) THEN Raise("KeyError")
    ELSE ChangedMessage(PodIndex(pod, "collection"), PodIndex(pod, "id"),
                        PodGet(pod, "cleared"), PodGet(pod, "fields"))

PodChangedMessageFactory(message) ==
    LET pod == <<Item("msg", Str(MSG_CHANGED)),
                 Item("collection", message.collection),
                 Item("id", message.id)>>
        pod1 == PodSetIf(pod, message.cleared # None, "cleared",
                         message.cleared)
    IN  Ok(PodSetIf(pod1, message.fields # None, "fields", message.fields))

ConnectedMessageFactory(pod) ==
    IF MissingKey(pod, {"session"}) THEN Raise("KeyError")
    ELSE ConnectedMessage(PodIndex(pod, "session"))

PodConnectedMessageFactory(message) ==
    Ok(<<Item("msg", Str(MSG_CONNECTED)), Item("session", message.session)>>)

ErrorMessageFactory(pod) ==
    IF MissingKey(pod, {"reason", "offendingMessage"}) THEN Raise("KeyError")
    ELSE ErrorMessage(PodIndex(pod, "reason"),
                      PodIndex(pod, "offendingMessage"))

PodErrorMessageFactory(message) ==
    Ok(<<Item("msg", Str(MSG_ERROR)), Item("reason", message.reason),
         Item("offendingMessage", message.offending_pod)>>)

FailedMessageFactory(pod) ==
    IF MissingKey(pod, {"version"}) THEN Raise("KeyError")
    ELSE FailedMessage(PodIndex(pod, "version"))

PodFailedMessageFactory(message) ==
    Ok(<<Item("msg", Str(MSG_FAILED)), Item("version", message.version)>>)

MovedBeforeMessageFactory(pod) ==
    IF MissingKey(pod, {"collection", "id", "before"}) THEN Raise("KeyError")
    ELSE MovedBeforeMessage(PodIndex(pod, "collection"), PodIndex(pod, "id"),
                            PodIndex(pod, "before"))

PodMovedBeforeMessageFactory(message) ==
    Ok(<<Item("msg", Str(MSG_MOVED_BEFORE)),
         Item("collection", message.collection), Item("id", message.id),
         Item("before", message.before)>>)

NosubMessageFactory(pod) ==
    IF MissingKey(pod, {"id"}) THEN Raise("KeyError")
    ELSE NosubMessage(PodIndex(pod, "id"), PodGet(pod, "error"))

PodNosubMessageFactory(message) ==
    LET pod == <<Item("msg", Str(MSG_NOSUB)), Item("id", message.id)>>
    IN  Ok(PodSetIf(pod, message.error # None, "error", message.error))

ReadyMessageFactory(pod) ==
    IF MissingKey(pod, {"subs"}) THEN Raise("KeyError")
    ELSE ReadyMessage(PodIndex(pod, "subs"))

PodReadyMessageFactory(message) ==
    Ok(<<Item("msg", Str(MSG_READY)), Item("subs", message.subs)>>)

RemoveMessageFactory(pod) ==
    IF MissingKey(pod, {"collection", "id"}) THEN Raise("KeyError")
    ELSE RemovedMessage(PodIndex(pod, "collection"), PodIndex(pod, "id"))

PodRemovedMessageFactory(message) ==
    Ok(<<Item("msg", Str(MSG_REMOVED)),
         Item("collection", message.collection), Item("id", message.id)>>)

ResultMessageFactory(pod) ==
    IF MissingKey(pod, {"id"}) THEN Raise("KeyError")
    ELSE ResultMessage(PodIndex(pod, "id"), PodGet(pod, "error"),
                       PodGet(pod, "result"))

PodResultMessageFactory(message) ==
    LET pod == <<Item("msg", Str(MSG_RESULT)), Item("id", message.id)>>
        pod1 == PodSetIf(pod, message.error # None, "error", message.error)
    IN  Ok(PodSetIf(pod1, message.result # None, "result", message.result))

UpdatedMessageFactory(pod) ==
    IF MissingKey(pod, {"methods"}) THEN Raise("KeyError")
    ELSE UpdatedMessage(PodIndex(pod, "methods"))

PodUpdatedMessageFactory(message) ==
    Ok(<<Item("msg", Str(MSG_UPDATED)), Item("methods", message.methods)>>)

\* ------------------------------------------------------------------------
\* Aggregate factories
\* ------------------------------------------------------------------------

\* F.SRC_TYPE of each factory class
SRC_TYPE(F) ==
    CASE F = "ConnectMessageFactory" -> MSG_CONNECT
      [] F = "MethodMessageFactory" -> MSG_METHOD
      [] F = "SubMessageFactory" -> MSG_SUB
      [] F = "UnsubMessageFactory" -> MSG_UNSUB
      [] F = "AddedMessageFactory" -> MSG_ADDED
      [] F = "AddedBeforeMessageFactory" -> MSG_ADDED_BEFORE
      [] F = "ChangedMessageFactory" -> MSG_CHANGED
      [] F = "ConnectedMessageFactory" -> MSG_CONNECTED
      [] F = "ErrorMessageFactory" -> MSG_ERROR
      [] F = "FailedMessageFactory" -> MSG_FAILED
      [] F = "MovedBeforeMessageFactory" -> MSG_MOVED_BEFORE
      [] F = "NosubMessageFactory" -> MSG_NOSUB
      [] F = "ReadyMessageFactory" -> MSG_READY
      [] F = "RemoveMessageFactory" -> MSG_REMOVED
      [] F = "ResultMessageFactory" -> MSG_RESULT
      [] F = "UpdatedMessageFactory" -> MSG_UPDATED
      [] F = "PodConnectMessageFactory" -> "ConnectMessage"
      [] F = "PodMethodMessageFactory" -> "MethodMessage"
      [] F = "PodSubMessageFactory" -> "SubMessage"
      [] F = "PodUnsubMessageFactory" -> "UnsubMessage"
      [] F = "PodAddedMessageFactory" -> "AddedMessage"
      [] F = "PodAddedBeforeMessageFactory" -> "AddedBeforeMessage"
      [] F = "PodChangedMessageFactory" -> "ChangedMessage"
      [] F = "PodConnectedMessageFactory" -> "ConnectedMessage"
      [] F = "PodErrorMessageFactory" -> "ErrorMessage"
      [] F = "PodFailedMessageFactory" -> "FailedMessage"
      [] F = "PodMovedBeforeMessageFactory" -> "MovedBeforeMessage"
      [] F = "PodNosubMessageFactory" -> "NosubMessage"
      [] F = "PodReadyMessageFactory" -> "ReadyMessage"
      [] F = "PodRemovedMessageFactory" -> "RemovedMessage"
      [] F = "PodResultMessageFactory" -> "ResultMessage"
      [] F = "PodUpdatedMessageFactory" -> "UpdatedMessage"

\* F().create(arg) of each factory class
FactoryCreate(F, arg) ==
    CASE F = "ConnectMessageFactory" -> ConnectMessageFactory(arg)
      [] F = "MethodMessageFactory" -> MethodMessageFactory(arg)
      [] F = "SubMessageFactory" -> SubMessageFactory(arg)
      [] F = "UnsubMessageFactory" -> UnsubMessageFactory(arg)
      [] F = "AddedMessageFactory" -> AddedMessageFactory(arg)
      [] F = "AddedBeforeMessageFactory" -> AddedBeforeMessageFactory(arg)
      [] F = "ChangedMessageFactory" -> ChangedMessageFactory(arg)
      [] F = "ConnectedMessageFactory" -> ConnectedMessageFactory(arg)
      [] F = "ErrorMessageFactory" -> ErrorMessageFactory(arg)
      [] F = "FailedMessageFactory" -> FailedMessageFactory(arg)
      [] F = "MovedBeforeMessageFactory" -> MovedBeforeMessageFactory(arg)
      [] F = "NosubMessageFactory" -> NosubMessageFactory(arg)
      [] F = "ReadyMessageFactory" -> ReadyMessageFactory(arg)
      [] F = "RemoveMessageFactory" -> RemoveMessageFactory(arg)
      [] F = "ResultMessageFactory" -> ResultMessageFactory(arg)
      [] F = "UpdatedMessageFactory" -> UpdatedMessageFactory(arg)
      [] F = "PodConnectMessageFactory" -> PodConnectMessageFactory(arg)
      [] F = "PodMethodMessageFactory" -> PodMethodMessageFactory(arg)
      [] F = "PodSubMessageFactory" -> PodSubMessageFactory(arg)
      [] F = "PodUnsubMessageFactory" -> PodUnsubMessageFactory(arg)
      [] F = "PodAddedMessageFactory" -> PodAddedMessageFactory(arg)
      [] F = "PodAddedBeforeMessageFactory" ->
             PodAddedBeforeMessageFactory(arg)
      [] F = "PodChangedMessageFactory" -> PodChangedMessageFactory(arg)
      [] F = "PodConnectedMessageFactory" -> PodConnectedMessageFactory(arg)
      [] F = "PodErrorMessageFactory" -> PodErrorMessageFactory(arg)
      [] F = "PodFailedMessageFactory" -> PodFailedMessageFactory(arg)
      [] F = "PodMovedBeforeMessageFactory" ->
             PodMovedBeforeMessageFactory(arg)
      [] F = "PodNosubMessageFactory" -> PodNosubMessageFactory(arg)
      [] F = "PodReadyMessageFactory" -> PodReadyMessageFactory(arg)
      [] F = "PodRemovedMessageFactory" -> PodRemovedMessageFactory(arg)
      [] F = "PodResultMessageFactory" -> PodResultMessageFactory(arg)
      [] F = "PodUpdatedMessageFactory" -> PodUpdatedMessageFactory(arg)

\* AggregateFactory.__init__: {F.SRC_TYPE: F() for F in factory_classes};
\* of two classes with the same SRC_TYPE the later one stays.
AggregateFactory_init(factory_classes) ==
    [key \in {SRC_TYPE(factory_classes[i]) : i \in 1..Len(factory_classes)} |->
        LET last == CHOOSE i \in 1..Len(factory_classes) :
                        /\ SRC_TYPE(factory_classes[i]) = key
                        /\ \A j \in 1..Len(factory_classes) :
                               SRC_TYPE(factory_classes[j]) = key => j <= i
        IN  factory_classes[last]]

\* AggregateFactory.create, the key already computed:
\* self._factories[key].create(arg)
AggregateFactory(factories, key, arg) ==
    IF key \notin DOMAIN factories THEN Raise("KeyError")
    ELSE FactoryCreate(factories[key], arg)

\* AggregrateMessageFactory.create with a default: a pod whose key is not
\* registered goes to the factory of unsub or nosub instead of raising.
AggregrateMessageFactoryDefault(factories, pod) ==
    IF ~PodHas(pod, "msg") THEN Raise("KeyError")
    ELSE IF PodIndex(pod, "msg").t \in {"list", "map"} THEN Raise("TypeError")
    ELSE IF PodIndex(pod, "msg").s \in DOMAIN factories
    THEN AggregateFactory(factories, PodIndex(pod, "msg").s, pod)
    ELSE FactoryCreate(
             factories[CHOOSE k \in DOMAIN factories :
                           k \in {MSG_UNSUB, MSG_NOSUB}], pod)

\* AggregrateMessageFactory.create: the key is pod['msg']
AggregrateMessageFactory(factories, pod) ==
    IF ~PodHas(pod, "msg") THEN Raise("KeyError")
    ELSE IF PodIndex(pod, "msg").t \in {"list", "map"} THEN Raise("TypeError")
    ELSE IF PodIndex(pod, "msg").t = "none" THEN Raise("KeyError")
    ELSE AggregateFactory(factories, PodIndex(pod, "msg").s, pod)

\* AggregratePodMessageFactory.create: the key is type(message)
AggregratePodMessageFactory(factories, message) ==
    AggregateFactory(factories, message.cls, message)

ClientMessageFactoryClasses ==
    <<"ConnectMessageFactory", "MethodMessageFactory", "SubMessageFactory",
      "UnsubMessageFactory">>

PodClientMessageFactoryClasses ==
    <<"PodConnectMessageFactory", "PodMethodMessageFactory",
      "PodSubMessageFactory", "PodUnsubMessageFactory">>

ServerMessageFactoryClasses ==
    <<"AddedMessageFactory", "AddedBeforeMessageFactory",
      "ConnectedMessageFactory", "ChangedMessageFactory",
      "ErrorMessageFactory", "FailedMessageFactory",
      "MovedBeforeMessageFactory", "NosubMessageFactory",
      "ReadyMessageFactory", "RemoveMessageFactory", "ResultMessageFactory",
      "UpdatedMessageFactory">>

PodServerMessageFactroyClasses ==
    <<"PodAddedMessageFactory", "PodAddedBeforeMessageFactory",
      "PodConnectedMessageFactory", "PodChangedMessageFactory",
      "PodErrorMessageFactory", "PodFailedMessageFactory",
      "PodMovedBeforeMessageFactory", "PodNosubMessageFactory",
      "PodReadyMessageFactory", "PodRemovedMessageFactory",
      "PodResultMessageFactory", "PodUpdatedMessageFactory">>

\* The tables the four aggregates build when they are constructed.
ClientMessageFactories == AggregateFactory_init(ClientMessageFactoryClasses)

PodClientMessageFactories ==
    AggregateFactory_init(PodClientMessageFactoryClasses)

ServerMessageFactories == AggregateFactory_init(ServerMessageFactoryClasses)

PodServerMessageFactroies ==
    AggregateFactory_init(PodServerMessageFactroyClasses)

ClientMessageFactory(pod) ==
    AggregrateMessageFactory(ClientMessageFactories, pod)

PodClientMessageFactory(message) ==
    AggregratePodMessageFactory(PodClientMessageFactories, message)

ServerMessageFactory(pod) ==
    AggregrateMessageFactory(ServerMessageFactories, pod)

PodServerMessageFactroy(message) ==
    AggregratePodMessageFactory(PodServerMessageFactroies, message)

\* ------------------------------------------------------------------------
\* State
\* ------------------------------------------------------------------------

VARIABLES
    codecIn,          \* the message or pod a conversion starts from
    codecSide,        \* "client" or "server": the aggregate factories used
    codecMid,         \* the result of the first conversion
    codecOut,         \* the result of converting codecMid back
    codecPc,          \* "off", "start", "mid", "done", or the name of the
                      \* single step taken on codecIn
    codecField,       \* the attribute a step on a message is about
    codecOther,       \* the message codecIn is compared with
    closed_callback,  \* what the global name closed_callback is bound to
    conn,             \* the DdpConnection
    transport,        \* the web socket: "new", "connected", "opened",
                      \* "closing" or "closed"
    wire,             \* the texts the web socket was given to send
    received,         \* the texts the web socket has delivered
    created,          \* the pods given to ServerMessageFactory.create
    delivered,        \* the messages given to the socket's
                      \* received-message callback
    consumed,         \* the messages DdpConnection has passed on
    notified,         \* closed_callback has been called
    outcome,          \* the last call and the exception it raised, if any
    sends,            \* how many calls of send have been made
    future,           \* the Future objects: _value and _is_set
    waiter,           \* the threads that call Future.get
    sets,             \* how many calls of Future.set have been made
    manager           \* the `with WebSocketClientManager(socket)` statement

codecVars ==
    <<codecIn, codecSide, codecMid, codecOut, codecPc, codecField,
      codecOther>>

sessionVars ==
    <<closed_callback, conn, transport, wire, received, created, delivered,
      consumed, notified, outcome, sends>>

futureVars == <<future, waiter, sets>>

managerVars == <<manager>>

vars == <<codecVars, sessionVars, futureVars, managerVars>>

\* ------------------------------------------------------------------------
\* Input values of the conversions
\* ------------------------------------------------------------------------

Versions == {"1", "2"}

SupportLists ==
    UNION {[1..n -> Versions] : n \in 0..MaxSupport}

\* Values of a required field.
Required == {Str("a"), Str("b")}

\* Values of an optional field that is given: a string or an empty list.
Given == {Str("x"), List(<<>>)}

Sessions == {Str("abc")}

ConnectMessages ==
    {ConnectMessage(Str(v), s, x) :
        v \in Versions,
        s \in {None} \cup {List(q) : q \in SupportLists},
        x \in {None} \cup Sessions}

ClientMessages ==
    ConnectMessages
    \cup {MethodMessage(i, m, p) :
             i \in Required, m \in {Str("m")}, p \in Given}
    \cup {SubMessage(i, n, p) :
             i \in Required, n \in {Str("n")}, p \in {None} \cup Given}
    \cup {UnsubMessage(i) : i \in Required}

ServerMessages ==
    {AddedMessage(c, i, f) :
        c \in Required, i \in Required, f \in {None} \cup Given}
    \cup {AddedBeforeMessage(c, i, b, f) :
             c \in {Str("a")}, i \in Required, b \in Required,
             f \in {None} \cup Given}
    \cup {ChangedMessage(c, i, cl, f) :
             c \in {Str("a")}, i \in Required, cl \in {None} \cup Given,
             f \in {None} \cup Given}
    \cup {ConnectedMessage(x) : x \in Sessions}
    \cup {ErrorMessage(r, o) : r \in Required, o \in {Map("pod")}}
    \cup {FailedMessage(Str(v)) : v \in Versions}
    \cup {MovedBeforeMessage(c, i, b) :
             c \in {Str("a")}, i \in Required, b \in Required}
    \cup {NosubMessage(i, e) : i \in Required, e \in {None} \cup Given}
    \cup {ReadyMessage(q) : q \in {List(<<>>), List(<<"a", "b">>)}}
    \cup {RemovedMessage(c, i) : c \in Required, i \in Required}
    \cup {ResultMessage(i, e, r) :
             i \in Required, e \in {None} \cup Given, r \in {None} \cup Given}
    \cup {UpdatedMessage(q) : q \in {List(<<>>), List(<<"a", "b">>)}}

\* Messages of the class changed_message.py defines.
OtherModuleMessages ==
    {changed_message_ChangedMessage(c, i, cl, f) :
        c \in {Str("a")}, i \in Required, cl \in {None} \cup Given,
        f \in {None} \cup Given}

\* The messages that were constructed.
Messages ==
    {r.v : r \in {c \in ClientMessages \cup ServerMessages
                          \cup OtherModuleMessages : c.ok}}

\* The key k, with one of the values vals, or no key at all.
Optional(k, vals) == {<<>>} \cup {<<Item(k, v)>> : v \in vals}

\* The pods of each kind with every required key, and each optional key
\* omitted or present, with a value or with null.
WellFormedPods ==
    {<<Item("msg", Str(MSG_CONNECT)), Item("version", Str(v))>> \o s \o x :
        v \in Versions,
        s \in Optional("support",
                       {None} \cup {List(q) : q \in SupportLists}),
        x \in Optional("session", {None} \cup Sessions)}
    \cup {<<Item("msg", Str(MSG_METHOD)), Item("id", i),
            Item("method", Str("m")), Item("params", p)>> :
             i \in Required, p \in Given}
    \cup {<<Item("msg", Str(MSG_SUB)), Item("id", i),
            Item("name", Str("n"))>> \o p :
             i \in Required, p \in Optional("params", {None} \cup Given)}
    \cup {<<Item("msg", Str(MSG_UNSUB)), Item("id", i)>> : i \in Required}
    \cup {<<Item("msg", Str(MSG_ADDED)), Item("collection", c),
            Item("id", i)>> \o f :
             c \in Required, i \in Required,
             f \in Optional("fields", {None} \cup Given)}
    \cup {<<Item("msg", Str(MSG_ADDED_BEFORE)), Item("collection", Str("a")),
            Item("id", i), Item("before", b)>> \o f :
             i \in Required, b \in Required,
             f \in Optional("fields", {None} \cup Given)}
    \cup {<<Item("msg", Str(MSG_CHANGED)), Item("collection", Str("a")),
            Item("id", i)>> \o cl \o f :
             i \in Required,
             cl \in Optional("cleared", {None} \cup Given),
             f \in Optional("fields", {None} \cup Given)}
    \cup {<<Item("msg", Str(MSG_CONNECTED)), Item("session", x)>> :
             x \in Sessions}
    \cup {<<Item("msg", Str(MSG_ERROR)), Item("reason", r),
            Item("offendingMessage", Map("pod"))>> : r \in Required}
    \cup {<<Item("msg", Str(MSG_FAILED)), Item("version", Str(v))>> :
             v \in Versions}
    \cup {<<Item("msg", Str(MSG_MOVED_BEFORE)), Item("collection", Str("a")),
            Item("id", i), Item("before", b)>> :
             i \in Required, b \in Required}
    \cup {<<Item("msg", Str(MSG_NOSUB)), Item("id", i)>> \o e :
             i \in Required, e \in Optional("error", {None} \cup Given)}
    \cup {<<Item("msg", Str(MSG_READY)), Item("subs", q)>> :
             q \in {List(<<>>), List(<<"a", "b">>)}}
    \cup {<<Item("msg", Str(MSG_REMOVED)), Item("collection", c),
            Item("id", i)>> : c \in Required, i \in Required}
    \cup {<<Item("msg", Str(MSG_RESULT)), Item("id", i)>> \o e \o r :
             i \in Required,
             e \in Optional("error", {None} \cup Given),
             r \in Optional("result", {None} \cup Given)}
    \cup {<<Item("msg", Str(MSG_UPDATED)), Item("methods", q)>> :
             q \in {List(<<>>), List(<<"a", "b">>)}}

\* Pods no factory is registered for, or that lack a key.
OtherPods ==
    {<<Item("msg", Str("ping"))>>,
     <<Item("msg", None)>>,
     <<Item("server_id", Str("0"))>>,
     <<Item("msg", Str(MSG_CONNECTED))>>,
     <<Item("msg", Str(MSG_UNSUB))>>}

\* What a conversion starts from: a constructed message, a constructor
\* call that raised, or a pod.
MessageInputs ==
    {[kind |-> IF r.ok THEN "message" ELSE "raised", x |-> r] :
        r \in ClientMessages \cup ServerMessages \cup OtherModuleMessages}

PodInputs ==
    {[kind |-> "pod", x |-> Ok(pod)] : pod \in WellFormedPods \cup OtherPods}

NotRun == Raise("")

\* No conversion is under way.
NoInput == [kind |-> "raised", x |-> NotRun]

\* No message has been chosen to compare with.
NoMessage == [cls |-> ""]

\* No with statement has been entered.
Outside == [pc |-> "outside", exit |-> ""]

\* ------------------------------------------------------------------------
\* The conversions as steps
\* ------------------------------------------------------------------------

\* toPod: the pod factory of one side
PodMessageFactory(side, message) ==
    IF side = "client" THEN PodClientMessageFactory(message)
    ELSE PodServerMessageFactroy(message)

\* fromPod: the message factory of one side
MessageFactory(side, pod) ==
    IF side = "client" THEN ClientMessageFactory(pod)
    ELSE ServerMessageFactory(pod)

\* podfactory.create(message)
ToPod ==
    /\ codecPc = "start"
    /\ codecIn.kind = "message"
    /\ codecMid' = PodMessageFactory(codecSide, codecIn.x.v)
    /\ codecPc' = "mid"
    /\ UNCHANGED <<codecIn, codecSide, codecOut, codecField, codecOther,
                   sessionVars, futureVars, managerVars>>

\* msgfactory.create(pod) on the pod ToPod made
FromPodBack ==
    /\ codecPc = "mid"
    /\ codecIn.kind = "message"
    /\ codecMid.ok
    /\ codecOut' = MessageFactory(codecSide, codecMid.v)
    /\ codecPc' = "done"
    /\ UNCHANGED <<codecIn, codecSide, codecMid, codecField, codecOther,
                   sessionVars, futureVars, managerVars>>

\* msgfactory.create(pod)
FromPod ==
    /\ codecPc = "start"
    /\ codecIn.kind = "pod"
    /\ codecMid' = MessageFactory(codecSide, codecIn.x.v)
    /\ codecPc' = "mid"
    /\ UNCHANGED <<codecIn, codecSide, codecOut, codecField, codecOther,
                   sessionVars, futureVars, managerVars>>

\* podfactory.create(message) on the message FromPod made
ToPodBack ==
    /\ codecPc = "mid"
    /\ codecIn.kind = "pod"
    /\ codecMid.ok
    /\ codecOut' = PodMessageFactory(codecSide, codecMid.v)
    /\ codecPc' = "done"
    /\ UNCHANGED <<codecIn, codecSide, codecMid, codecField, codecOther,
                   sessionVars, futureVars, managerVars>>

\* A caller asks has_<attr>() and reads the property <attr> of a message,
\* for an optional attribute.
ReadOptional ==
    /\ codecPc = "start"
    /\ codecIn.kind = "message"
    /\ \E attr \in OptionalAttributes(codecIn.x.v.cls) :
           /\ codecField' = attr
           /\ codecMid' = HasField(codecIn.x.v, attr)
           /\ codecOut' = Property(codecIn.x.v, attr)
    /\ codecPc' = "read"
    /\ UNCHANGED <<codecIn, codecSide, codecOther, sessionVars, futureVars,
                   managerVars>>

\* A caller mutates the list or mapping it gave to the constructor of the
\* message, after the construction: the message changes with it when the
\* message holds that very object.
MutateArgument ==
    /\ codecPc = "start"
    /\ codecIn.kind = "message"
    /\ \E attr \in CollectionAttributes(codecIn.x.v.cls) :
           LET message == codecIn.x.v
           IN  /\ message[attr].t \in {"list", "map"}
               /\ codecField' = attr
               /\ codecOut' =
                      IF StoresArgument(message.cls, attr)
                      THEN Ok([message EXCEPT ![attr] = Mutated(@)])
                      ELSE Ok(message)
    /\ codecPc' = "argument mutated"
    /\ UNCHANGED <<codecIn, codecSide, codecMid, codecOther, sessionVars,
                   futureVars, managerVars>>

\* A caller reads a list or mapping property of the message and mutates
\* what it got: the message changes with it when the property returned the
\* stored object.
MutateReturned ==
    /\ codecPc = "start"
    /\ codecIn.kind = "message"
    /\ \E attr \in CollectionAttributes(codecIn.x.v.cls) :
           LET message == codecIn.x.v
           IN  /\ message[attr].t \in {"list", "map"}
               /\ codecField' = attr
               /\ codecOut' =
                      IF ReturnsStored(message.cls, attr)
                      THEN Ok([message EXCEPT ![attr] = Mutated(@)])
                      ELSE Ok(message)
    /\ codecPc' = "returned mutated"
    /\ UNCHANGED <<codecIn, codecSide, codecMid, codecOther, sessionVars,
                   futureVars, managerVars>>

\* A caller evaluates codecIn == other and other == codecIn.
Compare ==
    /\ codecPc = "start"
    /\ codecIn.kind = "message"
    /\ \E other \in Messages :
           /\ codecOther' = other
           /\ codecMid' = Equals(codecIn.x.v, other)
           /\ codecOut' = Equals(other, codecIn.x.v)
    /\ codecPc' = "compared"
    /\ UNCHANGED <<codecIn, codecSide, codecField, sessionVars, futureVars,
                   managerVars>>

\* ------------------------------------------------------------------------
\* Parser, serializer and filter
\* ------------------------------------------------------------------------

\* A text frame: the JSON text of a pod, or a text that is not JSON.
Text(pod) == [json |-> TRUE, pod |-> pod]

NotJson == [json |-> FALSE, pod |-> <<>>]

\* PodMessageParser.parse: json.loads(text)
PodMessageParser(text) ==
    IF text.json THEN Ok(text.pod) ELSE Raise("ValueError")

\* PodMessageSerializer.serialize: json.dumps(pod)
PodMessageSerializer(pod) == Text(pod)

\* A filter that accepts every pod, as PodClientMessageFilter does.
AcceptEveryPod(pod) == TRUE

\* PodServerMessageFilter.accept: 'msg' in pod
PodServerMessageFilter(pod) == PodHas(pod, "msg")

\* ------------------------------------------------------------------------
\* The web socket, MessageWebSocketClient and DdpConnection
\* ------------------------------------------------------------------------

\* Most calls of send, and most frames delivered, in one run.
MaxSends == 2

MaxFrames == 2

\* The messages DdpConnection is constructed with.
ConnectArguments ==
    {ConnectMessage(Str("1"), None, None).v,
     ConnectMessage(Str("1"), List(<<"1", "2">>), Str("abc")).v}

\* The messages callers hand to send.
SendArguments ==
    {MethodMessage(Str("a"), Str("m"), List(<<>>)).v,
     UnsubMessage(Str("b")).v,
     ConnectMessage(Str("2"), None, None).v,
     ConnectedMessage(Str("abc")).v}

\* The texts the server side of the web socket delivers.
Frames ==
    {Text(<<Item("msg", Str(MSG_CONNECTED)), Item("session", Str("abc"))>>),
     Text(<<Item("msg", Str(MSG_FAILED)), Item("version", Str("2"))>>),
     Text(<<Item("server_id", Str("0"))>>),
     Text(<<Item("msg", Str("ping"))>>),
     Text(<<Item("msg", Str(MSG_CONNECTED))>>),
     NotJson}

Call(op, exc) == [op |-> op, exc |-> exc]

\* DdpConnection.__init__: the attributes are _connect_message and _socket.
\* The argument closed_callback=closed_callback reads a name that is no
\* parameter and no local: it is looked up as a global, and the call
\* raises NameError unless the module namespace binds it.
DdpConnection(connect_message) ==
    IF closed_callback = "unbound" THEN [state |-> "NameError"]
    ELSE [state |-> "constructed",
          attrs |-> [connect_message |-> connect_message,
                     socket |-> [cls |-> "MessageWebSocketClient"]]]

Construct ==
    /\ conn.state = "none"
    /\ \E connect_message \in ConnectArguments :
           conn' = DdpConnection(connect_message)
    /\ outcome' = Call("__init__",
                       IF closed_callback = "unbound" THEN "NameError" ELSE "")
    /\ UNCHANGED <<closed_callback, transport, wire, received, created,
                   delivered, consumed, notified, sends>>

\* DdpConnection.connect: the web socket connects and starts the thread
\* that will report opened.
Connect ==
    /\ conn.state = "constructed"
    /\ transport = "new"
    /\ transport' = "connected"
    /\ outcome' = Call("connect", "")
    /\ UNCHANGED <<closed_callback, conn, wire, received, created, delivered,
                   consumed, notified, sends>>

\* MessageWebSocketClient.send: the pod factory, the serializer, then the
\* web socket's send, which takes the text while the socket is connected.
MessageWebSocketClient_send(message) ==
    LET pod == PodClientMessageFactory(message)
    IN  IF ~pod.ok THEN [wire |-> wire, exc |-> pod.exc]
        ELSE IF transport \in {"connected", "opened"}
        THEN [wire |-> Append(wire, PodMessageSerializer(pod.v)), exc |-> ""]
        ELSE [wire |-> wire, exc |-> "SocketError"]

\* DdpConnection._opened, the opened callback
Opened ==
    /\ conn.state = "constructed"
    /\ transport = "connected"
    /\ transport' = "opened"
    /\ LET sent == MessageWebSocketClient_send(conn.attrs.connect_message)
       IN  /\ wire' = sent.wire
           /\ outcome' = Call("_opened", sent.exc)
    /\ UNCHANGED <<closed_callback, conn, received, created, delivered,
                   consumed, notified, sends>>

\* DdpConnection.send
DdpConnection_send(message) == MessageWebSocketClient_send(message)

Send ==
    /\ conn.state = "constructed"
    /\ sends < MaxSends
    /\ \E message \in SendArguments :
           LET sent == DdpConnection_send(message)
           IN  /\ wire' = sent.wire
               /\ outcome' = Call("send", sent.exc)
    /\ sends' = sends + 1
    /\ UNCHANGED <<closed_callback, conn, transport, received, created,
                   delivered, consumed, notified>>

\* DdpConnection._received_message: self._received_message_callback is
\* called, an attribute that __init__ does not set.
DdpConnection_received_message(message) ==
    IF "received_message_callback" \in DOMAIN conn.attrs
    THEN [consumed |-> Append(consumed, message), exc |-> ""]
    ELSE [consumed |-> consumed, exc |-> "AttributeError"]

\* MessageWebSocketClient._received_message on one text: what is given to
\* the factory, what is given to the callback, and what is raised.
MessageWebSocketClient_received_message(text) ==
    LET pod == PodMessageParser(text)
        message == ServerMessageFactory(pod.v)
        passed == DdpConnection_received_message(message.v)
    IN  IF ~pod.ok
        THEN [created |-> created, delivered |-> delivered,
              consumed |-> consumed, exc |-> pod.exc]
        ELSE IF ~PodServerMessageFilter(pod.v)
        THEN [created |-> created, delivered |-> delivered,
              consumed |-> consumed, exc |-> ""]
        ELSE IF ~message.ok
        THEN [created |-> Append(created, pod.v), delivered |-> delivered,
              consumed |-> consumed, exc |-> message.exc]
        ELSE [created |-> Append(created, pod.v),
              delivered |-> Append(delivered, message.v),
              consumed |-> passed.consumed, exc |-> passed.exc]

\* _StrategyWebSocketClient.received_message: the web socket's thread
\* delivers one text.
ReceivedMessage ==
    /\ conn.state = "constructed"
    /\ transport = "opened"
    /\ Len(received) < MaxFrames
    /\ \E text \in Frames :
           LET got == MessageWebSocketClient_received_message(text)
           IN  /\ received' = Append(received, text)
               /\ created' = got.created
               /\ delivered' = got.delivered
               /\ consumed' = got.consumed
               /\ outcome' = Call("received_message", got.exc)
    /\ UNCHANGED <<closed_callback, conn, transport, wire, notified, sends>>

\* DdpConnection.close
Close ==
    /\ conn.state = "constructed"
    /\ transport \in {"connected", "opened"}
    /\ transport' = "closing"
    /\ outcome' = Call("close", "")
    /\ UNCHANGED <<closed_callback, conn, wire, received, created, delivered,
                   consumed, notified, sends>>

\* _StrategyWebSocketClient.closed: the closed callback is called when
\* there is one.
Closed ==
    /\ conn.state = "constructed"
    /\ transport \in {"connected", "opened", "closing"}
    /\ transport' = "closed"
    /\ notified' = (closed_callback # "None")
    /\ outcome' = Call("closed", "")
    /\ UNCHANGED <<closed_callback, conn, wire, received, created, delivered,
                   consumed, sends>>

\* ------------------------------------------------------------------------
\* WebSocketClientManager, with the DdpConnection as its socket
\* ------------------------------------------------------------------------

\* The with statement has ended because its body raised.
Raised == [pc |-> "exited", exit |-> "raised"]

\* The with statement has ended because its body came to its end.
Returned == [pc |-> "exited", exit |-> "returned"]

\* `with WebSocketClientManager(socket) as managed:` is entered: the
\* generator runs socket.connect() and yields the ManagedWebSocketClient.
ManagerEnter ==
    /\ manager.pc = "outside"
    /\ Connect
    /\ manager' = [pc |-> "body", exit |-> ""]

\* The body calls managed.send(message), ManagedWebSocketClient.send,
\* which calls the socket's send.  An exception of the call leaves the
\* body unless the body handles it: it is then thrown into the generator
\* at its yield, and the generator ends without reaching socket.close().
ManagedSend ==
    /\ manager.pc = "body"
    /\ Send
    /\ \/ manager' = manager /\ outcome'.exc = ""
       \/ manager' \in {manager, Raised} /\ outcome'.exc # ""

\* The body raises for a reason of its own: thrown into the generator at
\* its yield, the exception ends it without reaching socket.close().
BodyRaises ==
    /\ manager.pc = "body"
    /\ manager' = Raised
    /\ outcome' = Call("with", "Exception")
    /\ UNCHANGED <<closed_callback, conn, transport, wire, received, created,
                   delivered, consumed, notified, sends>>

\* The body comes to its end: the generator goes on after its yield and
\* runs socket.close().
BodyReturns ==
    /\ manager.pc = "body"
    /\ manager' = Returned
    /\ transport' = IF transport \in {"connected", "opened"} THEN "closing"
                    ELSE transport
    /\ outcome' = Call("close", "")
    /\ UNCHANGED <<closed_callback, conn, wire, received, created, delivered,
                   consumed, notified, sends>>

\* ------------------------------------------------------------------------
\* Future
\* ------------------------------------------------------------------------

NSlots == 2

NThreads == 2

MaxSets == 2

Slots == 1..NSlots

Threads == 1..NThreads

\* The values set is called with.
SetArguments == {Str("r1"), Str("r2")}

\* Future.__init__
Future == [value |-> None, is_set |-> FALSE]

Idle == [pc |-> "idle", slot |-> 1, timeout |-> "None", result |-> NotRun]

\* Future.get is called: the thread enters `with self._cond`.
Get(t) ==
    /\ waiter[t].pc = "idle"
    /\ \E f \in Slots, timeout \in {"None", "finite"} :
           waiter' = [waiter EXCEPT ![t] =
                         [pc |-> "test", slot |-> f, timeout |-> timeout,
                          result |-> NotRun]]
    /\ UNCHANGED <<future, sets>>

\* `while not self._is_set`, holding the lock: the thread leaves the loop
\* and the lock, or calls self._cond.wait(timeout=timeout).
GetTest(t) ==
    /\ waiter[t].pc = "test"
    /\ waiter' = [waiter EXCEPT ![t].pc =
                     IF future[waiter[t].slot].is_set THEN "return"
                     ELSE "wait"]
    /\ UNCHANGED <<future, sets>>

\* self._cond.wait returns because the timeout has passed: back to the
\* test of the loop.  (set does not notify, so nothing else ends a wait.)
WaitTimedOut(t) ==
    /\ waiter[t].pc = "wait"
    /\ waiter[t].timeout = "finite"
    /\ waiter' = [waiter EXCEPT ![t].pc = "test"]
    /\ UNCHANGED <<future, sets>>

\* `return self._value`, after the lock has been released
GetReturn(t) ==
    /\ waiter[t].pc = "return"
    /\ waiter' = [waiter EXCEPT ![t].pc = "done",
                                ![t].result = Ok(future[waiter[t].slot].value)]
    /\ UNCHANGED <<future, sets>>

\* Future.set
Set ==
    /\ sets < MaxSets
    /\ \E f \in Slots, value \in SetArguments :
           future' = [future EXCEPT ![f] = [value |-> value, is_set |-> TRUE]]
    /\ sets' = sets + 1
    /\ UNCHANGED waiter

\* ------------------------------------------------------------------------
\* Specifications
\* ------------------------------------------------------------------------

\* The conversions between messages and pods.
CodecNext ==
    \/ ToPod
    \/ FromPodBack
    \/ FromPod
    \/ ToPodBack
    \/ ReadOptional
    \/ MutateArgument
    \/ MutateReturned
    \/ Compare

\* A message or a pod is given; no connection is made.
CodecInit ==
    /\ \/ codecIn \in MessageInputs
       \/ codecIn \in PodInputs
    /\ codecSide \in {"client", "server"}
    /\ codecMid = NotRun
    /\ codecOut = NotRun
    /\ codecPc = "start"
    /\ codecField = ""
    /\ codecOther = NoMessage
    /\ manager = Outside
    /\ closed_callback = "unbound"
    /\ conn = [state |-> "none"]
    /\ transport = "new"
    /\ wire = <<>>
    /\ received = <<>>
    /\ created = <<>>
    /\ delivered = <<>>
    /\ consumed = <<>>
    /\ notified = FALSE
    /\ outcome = Call("", "")
    /\ sends = 0
    /\ future = [f \in Slots |-> Future]
    /\ waiter = [t \in Threads |-> Idle]
    /\ sets = 0

CodecSpec == CodecInit /\ [][CodecNext]_vars

\* One DdpConnection, its callers and its web socket.
Next ==
    \/ Construct /\ UNCHANGED <<codecVars, futureVars, managerVars>>
    \/ Connect /\ UNCHANGED <<codecVars, futureVars, managerVars>>
    \/ Opened /\ UNCHANGED <<codecVars, futureVars, managerVars>>
    \/ Send /\ UNCHANGED <<codecVars, futureVars, managerVars>>
    \/ ReceivedMessage /\ UNCHANGED <<codecVars, futureVars, managerVars>>
    \/ Close /\ UNCHANGED <<codecVars, futureVars, managerVars>>
    \/ Closed /\ UNCHANGED <<codecVars, futureVars, managerVars>>

\* No DdpConnection has been constructed yet; the futures are new and no
\* thread waits.  The module namespace may or may not bind the name
\* closed_callback that DdpConnection.__init__ reads.
Init ==
    /\ closed_callback \in {"unbound", "None", "function"}
    /\ conn = [state |-> "none"]
    /\ transport = "new"
    /\ wire = <<>>
    /\ received = <<>>
    /\ created = <<>>
    /\ delivered = <<>>
    /\ consumed = <<>>
    /\ notified = FALSE
    /\ outcome = Call("", "")
    /\ sends = 0
    /\ future = [f \in Slots |-> Future]
    /\ waiter = [t \in Threads |-> Idle]
    /\ sets = 0
    /\ codecIn = NoInput
    /\ codecSide = "client"
    /\ codecMid = NotRun
    /\ codecOut = NotRun
    /\ codecPc = "off"
    /\ codecField = ""
    /\ codecOther = NoMessage
    /\ manager = Outside

Spec == Init /\ [][Next]_vars

\* Futures, the threads that wait on them, and the connection opening and
\* closing meanwhile.
FutureNext ==
    \/ Construct /\ UNCHANGED <<codecVars, futureVars, managerVars>>
    \/ Connect /\ UNCHANGED <<codecVars, futureVars, managerVars>>
    \/ Opened /\ UNCHANGED <<codecVars, futureVars, managerVars>>
    \/ Closed /\ UNCHANGED <<codecVars, futureVars, managerVars>>
    \/ \E t \in Threads : Get(t) /\ UNCHANGED <<codecVars, sessionVars, managerVars>>
    \/ \E t \in Threads : GetTest(t) /\ UNCHANGED <<codecVars, sessionVars, managerVars>>
    \/ \E t \in Threads : WaitTimedOut(t) /\ UNCHANGED <<codecVars, sessionVars, managerVars>>
    \/ \E t \in Threads : GetReturn(t) /\ UNCHANGED <<codecVars, sessionVars, managerVars>>
    \/ Set /\ UNCHANGED <<codecVars, sessionVars, managerVars>>

FutureSpec == Init /\ [][FutureNext]_vars

\* Every thread inside get is scheduled again, and a wait with a timeout
\* ends when the timeout has passed.
Fairness ==
    \A t \in Threads :
        /\ WF_vars(GetTest(t) /\ UNCHANGED <<codecVars, sessionVars, managerVars>>)
        /\ WF_vars(WaitTimedOut(t) /\ UNCHANGED <<codecVars, sessionVars, managerVars>>)
        /\ WF_vars(GetReturn(t) /\ UNCHANGED <<codecVars, sessionVars, managerVars>>)

FairFutureSpec == FutureSpec /\ Fairness

\* One DdpConnection used as the socket of a with statement, and its web
\* socket.
ManagerNext ==
    \/ Construct /\ UNCHANGED <<codecVars, futureVars, managerVars>>
    \/ ManagerEnter /\ UNCHANGED <<codecVars, futureVars>>
    \/ Opened /\ UNCHANGED <<codecVars, futureVars, managerVars>>
    \/ ManagedSend /\ UNCHANGED <<codecVars, futureVars>>
    \/ ReceivedMessage /\ UNCHANGED <<codecVars, futureVars, managerVars>>
    \/ BodyRaises /\ UNCHANGED <<codecVars, futureVars>>
    \/ BodyReturns /\ UNCHANGED <<codecVars, futureVars>>
    \/ Closed /\ UNCHANGED <<codecVars, futureVars, managerVars>>

ManagerSpec == Init /\ [][ManagerNext]_vars

\* ------------------------------------------------------------------------
\* Properties of the conversions (checked under CodecSpec)
\* ------------------------------------------------------------------------

\* The discriminant of each message class.
Discriminant(cls) ==
    CASE cls = "ConnectMessage" -> MSG_CONNECT
      [] cls = "MethodMessage" -> MSG_METHOD
      [] cls = "SubMessage" -> MSG_SUB
      [] cls = "UnsubMessage" -> MSG_UNSUB
      [] cls = "AddedMessage" -> MSG_ADDED
      [] cls = "AddedBeforeMessage" -> MSG_ADDED_BEFORE
      [] cls = "ChangedMessage" -> MSG_CHANGED
      [] cls = "ConnectedMessage" -> MSG_CONNECTED
      [] cls = "ErrorMessage" -> MSG_ERROR
      [] cls = "FailedMessage" -> MSG_FAILED
      [] cls = "MovedBeforeMessage" -> MSG_MOVED_BEFORE
      [] cls = "NosubMessage" -> MSG_NOSUB
      [] cls = "ReadyMessage" -> MSG_READY
      [] cls = "RemovedMessage" -> MSG_REMOVED
      [] cls = "ResultMessage" -> MSG_RESULT
      [] cls = "UpdatedMessage" -> MSG_UPDATED

SideClasses(side) ==
    IF side = "client" THEN ClientMessageClasses ELSE ServerMessageClasses

SideDiscriminants(side) == {Discriminant(cls) : cls \in SideClasses(side)}

\* The optional keys of each kind of pod.
OptionalKeys(msg) ==
    CASE msg = MSG_CONNECT -> {"support", "session"}
      [] msg = MSG_SUB -> {"params"}
      [] msg \in {MSG_ADDED, MSG_ADDED_BEFORE} -> {"fields"}
      [] msg = MSG_CHANGED -> {"cleared", "fields"}
      [] msg = MSG_NOSUB -> {"error"}
      [] msg = MSG_RESULT -> {"error", "result"}
      [] OTHER -> {}

\* The conversion started from a message and uses the factories of the
\* message's own side.
MessageRun ==
    /\ codecIn.kind = "message"
    /\ codecIn.x.v.cls \in SideClasses(codecSide)

\* The conversion started from a well-formed pod and uses the factories of
\* the pod's own side.
PodRun ==
    /\ codecIn.kind = "pod"
    /\ codecIn.x.v \in WellFormedPods
    /\ PodIndex(codecIn.x.v, "msg").s \in SideDiscriminants(codecSide)

\* C1: for every constructible message m of every variant, toPod(m)
\* succeeds and fromPod(toPod(m)) == m.
C1_MessageRoundTrip ==
    /\ (MessageRun /\ codecPc = "mid") => codecMid.ok
    /\ (MessageRun /\ codecPc = "done") =>
           /\ codecOut.ok
           /\ MessageEq(codecOut.v, codecIn.x.v) = "True"

\* The items of a pod without the optional keys whose value is null.
WithoutNulls(pod) ==
    SelectSeq(pod, LAMBDA it :
        it.k \notin OptionalKeys(PodIndex(pod, "msg").s) \/ it.v # None)

SupportReduced(pod) ==
    LET v == PodIndex(pod, "version").s
        q == PodIndex(pod, "support").l
        first == CHOOSE i \in 1..Len(q) :
                     q[i] = v /\ \A j \in 1..(i - 1) : q[j] # v
        rest == IF \E i \in 1..Len(q) : q[i] = v
                THEN SubSeq(q, 1, first - 1) \o SubSeq(q, first + 1, Len(q))
                ELSE q
    IN  IF rest = <<>>
        THEN SelectSeq(pod, LAMBDA it : it.k # "support")
        ELSE [i \in 1..Len(pod) |->
                 IF pod[i].k = "support" THEN Item("support", List(rest))
                 ELSE pod[i]]

\* What a well-formed pod comes back as.
NormalForm(pod) ==
    LET p == WithoutNulls(pod)
    IN  IF PodIndex(p, "msg").s = MSG_CONNECT /\ PodHas(p, "support")
        THEN SupportReduced(p) ELSE p

\* A result pod with both or neither of error and result (null counts as
\* not given): the only well-formed pods that fromPod refuses.
ResultRefused(pod) ==
    /\ PodIndex(pod, "msg").s = MSG_RESULT
    /\ (PodGet(pod, "error") # None) = (PodGet(pod, "result") # None)

\* No optional key is null and, in a connect pod, support is not empty and
\* does not contain version.
Plain(pod) ==
    /\ WithoutNulls(pod) = pod
    /\ (PodIndex(pod, "msg").s = MSG_CONNECT /\ PodHas(pod, "support")) =>
           /\ PodIndex(pod, "support").l # <<>>
           /\ ~Contains(PodIndex(pod, "support").l,
                        PodIndex(pod, "version").s)

RegisteredUnder(factory_classes, key) ==
    CHOOSE i \in 1..Len(factory_classes) : SRC_TYPE(factory_classes[i]) = key

\* C3: create(pod) with a discriminant that is not registered, and
\* create(message) with a message whose class is not registered, raise
\* and return nothing; a registered key gets the result of the factory
\* registered under that key, a message or pod of that very variant.
C3_RouterClassification ==
    /\ (codecPc = "mid" /\ codecIn.kind = "pod") =>
           LET pod == codecIn.x.v
               classes == IF codecSide = "client"
                          THEN ClientMessageFactoryClasses
                          ELSE ServerMessageFactoryClasses
           IN  IF PodHas(pod, "msg")
                  /\ PodIndex(pod, "msg").s \in SideDiscriminants(codecSide)
               THEN /\ codecMid =
                         FactoryCreate(
                             classes[RegisteredUnder(classes,
                                         PodIndex(pod, "msg").s)], pod)
                    /\ codecMid.ok =>
                         Discriminant(codecMid.v.cls) = PodIndex(pod, "msg").s
               ELSE codecMid = Raise("KeyError")
    /\ (codecPc = "mid" /\ codecIn.kind = "message") =>
           LET message == codecIn.x.v
               classes == IF codecSide = "client"
                          THEN PodClientMessageFactoryClasses
                          ELSE PodServerMessageFactroyClasses
           IN  IF message.cls \in SideClasses(codecSide)
               THEN /\ codecMid =
                         FactoryCreate(
                             classes[RegisteredUnder(classes, message.cls)],
                             message)
                    /\ codecMid.ok
                    /\ PodIndex(codecMid.v, "msg") =
                         Str(Discriminant(message.cls))
               ELSE codecMid = Raise("KeyError")

\* A server message was handed to the client pod factory, the one send
\* uses, and the call raised.
C3_Witness ==
    /\ codecPc = "mid"
    /\ codecIn.kind = "message"
    /\ codecSide = "client"
    /\ codecIn.x.v.cls = "ConnectedMessage"
    /\ ~codecMid.ok

\* ------------------------------------------------------------------------
\* Properties of the connection (checked under Spec)
\* ------------------------------------------------------------------------

\* The text delivered by the step, when the step delivers one.
Delivers == Len(received') = Len(received) + 1

LastReceived == received'[Len(received')]

\* C4: a parsed pod without a `msg` key is not given to the server message
\* factory nor to the received-message callback, and nothing is raised; a
\* parsed pod with a `msg` key is given to the factory.
C4_InboundFilter ==
    [][(Delivers /\ LastReceived.json) =>
           IF PodHas(LastReceived.pod, "msg")
           THEN created' = Append(created, LastReceived.pod)
           ELSE /\ created' = created
                /\ delivered' = delivered
                /\ consumed' = consumed
                /\ outcome'.exc = ""]_vars

\* The last text delivered was a pod without `msg`; the factory has seen
\* no pod and the call returned.
C4_Witness ==
    /\ received # <<>>
    /\ received[Len(received)] = Text(<<Item("server_id", Str("0"))>>)
    /\ created = <<>>
    /\ outcome = Call("received_message", "")

\* C5: when the web socket reports opened, the text of the configured
\* connect message is sent, once, and it is the first text sent on the
\* connection.
C5_ConnectFirst ==
    [][(transport = "connected" /\ transport' = "opened") =>
           wire' = <<PodMessageSerializer(
                       PodConnectMessageFactory(
                           conn.attrs.connect_message).v)>>]_vars

\* C6: once a Connected message carrying session s has been received, the
\* connection has recorded s.
C6_SessionRecorded ==
    (delivered # <<>> /\ delivered[Len(delivered)].cls = "ConnectedMessage") =>
        \E a \in DOMAIN conn.attrs :
            conn.attrs[a] = delivered[Len(delivered)].session

\* The handshake is complete: the socket is open, a Connected message has
\* been received and no Failed message has.
SessionReady ==
    /\ transport = "opened"
    /\ \E i \in 1..Len(delivered) : delivered[i].cls = "ConnectedMessage"
    /\ \A i \in 1..Len(delivered) : delivered[i].cls # "FailedMessage"

\* C7: a text that is not a connect message is given to the web socket
\* only while the session is ready.
C7_SendGuard ==
    [][(Len(wire') > Len(wire)
        /\ PodIndex(wire'[Len(wire')].pod, "msg").s # MSG_CONNECT) =>
           SessionReady]_vars

\* The messages of the texts that parse, pass the filter and decode, in
\* the order of the texts.
RECURSIVE Decoded(_)
Decoded(texts) ==
    IF texts = <<>> THEN <<>>
    ELSE LET text == Head(texts)
             good == /\ text.json
                     /\ PodServerMessageFilter(text.pod)
                     /\ ServerMessageFactory(text.pod).ok
         IN  (IF good THEN <<ServerMessageFactory(text.pod).v>> ELSE <<>>)
                 \o Decoded(Tail(texts))

\* C8: the consumer registered with the connection has been given the
\* message of every delivered text that decodes, once each and in the
\* order of delivery.
C8_ConsumerInOrder == consumed = Decoded(received)

\* ------------------------------------------------------------------------
\* Properties of Future (checked under FutureSpec and FairFutureSpec)
\* ------------------------------------------------------------------------

\* C9: a get with a finite timeout that waits on a future nobody sets
\* comes back to its caller.
C9_TimedGetReturns ==
    \A t \in Threads :
        (waiter[t].pc = "wait" /\ waiter[t].timeout = "finite")
            ~> (waiter[t].pc = "done" \/ future[waiter[t].slot].is_set)

\* C10: when the web socket reports closed, every future a caller is
\* waiting on is resolved.
C10_ClosedResolvesPending ==
    [][(transport # "closed" /\ transport' = "closed") =>
           \A t \in Threads :
               waiter[t].pc \in {"test", "wait"} =>
                   future'[waiter[t].slot].is_set]_vars

\* C11: a future is resolved once: two get calls on the same future that
\* have returned have returned the same value, whatever set calls were made
\* between them.
C11_SingleResolution ==
    \A t, u \in Threads :
        (/\ waiter[t].pc = "done"
         /\ waiter[u].pc = "done"
         /\ waiter[t].slot = waiter[u].slot) =>
            waiter[t].result = waiter[u].result

\* A ConnectMessage has been constructed and is being converted by the
\* client factories.
ConnectRun ==
    /\ codecIn.kind = "message"
    /\ codecIn.x.v.cls = "ConnectMessage"
    /\ codecSide = "client"

\* C12: a constructed ConnectMessage never has its version among its
\* support entries and its support is absent or a non-empty list; its pod
\* has a `support` key only when the message has support, and the list
\* under that key does not contain the version.
C12_ConnectSupport ==
    /\ ConnectRun =>
           LET m == codecIn.x.v
           IN  \/ m.support = None
               \/ /\ m.support.l # <<>>
                  /\ ~Contains(m.support.l, m.version.s)
    /\ (ConnectRun /\ codecPc = "mid") =>
           /\ codecMid.ok
           /\ PodHas(codecMid.v, "support") <=> codecIn.x.v.support # None
           /\ PodHas(codecMid.v, "support") =>
                  ~Contains(PodIndex(codecMid.v, "support").l,
                            codecIn.x.v.version.s)

\* A well-formed result pod is being decoded by the server factories.
ResultPodRun ==
    /\ PodRun
    /\ PodIndex(codecIn.x.v, "msg").s = MSG_RESULT
    /\ codecSide = "server"

\* C13: decoding a result pod yields a ResultMessage when exactly one of
\* the keys `error` and `result` is in the pod, whatever the value under
\* that key (an empty list or null included), and raises, yielding no
\* message, when both keys or neither are in the pod.
C13_ResultExactlyOne ==
    (ResultPodRun /\ codecPc = "mid") =>
        LET pod == codecIn.x.v
        IN  IF PodHas(pod, "error") # PodHas(pod, "result")
            THEN /\ codecMid.ok
                 /\ codecMid.v.cls = "ResultMessage"
            ELSE ~codecMid.ok

\* ------------------------------------------------------------------------
\* Properties of the message classes (checked under CodecSpec)
\* ------------------------------------------------------------------------

\* C14: for a message of either module, has_<attr>() returns False exactly
\* when the optional attribute is absent, and reading an absent attribute
\* raises AttributeError instead of returning a value.
C14_AbsentAccessor ==
    codecPc = "read" =>
        LET absent == codecIn.x.v[codecField] = None
        IN  /\ codecMid = Ok(Bool(~absent))
            /\ absent => codecOut = Raise("AttributeError")
            /\ ~absent => codecOut.ok

\* C15: a pod that carries an optional key with null decodes to a message
\* that reports the field present, a pod that omits the key to a message
\* that reports it absent, and encoding the message again emits the key
\* (with null) in the first case and omits it in the second.
C15_NullIsNotAbsent ==
    /\ (PodRun /\ codecPc = "mid" /\ codecMid.ok) =>
           \A k \in OptionalKeys(PodIndex(codecIn.x.v, "msg").s) :
               HasField(codecMid.v, k) = Ok(Bool(PodHas(codecIn.x.v, k)))
    /\ (PodRun /\ codecPc = "done" /\ codecOut.ok) =>
           \A k \in OptionalKeys(PodIndex(codecIn.x.v, "msg").s) :
               /\ PodHas(codecOut.v, k) <=> PodHas(codecIn.x.v, k)
               /\ (PodHas(codecIn.x.v, k) /\ PodIndex(codecIn.x.v, k) = None)
                      => PodIndex(codecOut.v, k) = None

\* The keys of a pod, in the pod's order.
KeySequence(pod) == [i \in 1..Len(pod) |-> pod[i].k]

\* The keys of the required fields of each variant, in the order of the
\* data-model table.
TableRequired(cls) ==
    CASE cls = "ConnectMessage" -> <<"version">>
      [] cls = "MethodMessage" -> <<"id", "method", "params">>
      [] cls = "SubMessage" -> <<"id", "name">>
      [] cls = "UnsubMessage" -> <<"id">>
      [] cls = "AddedMessage" -> <<"collection", "id">>
      [] cls = "AddedBeforeMessage" -> <<"collection", "id", "before">>
      [] cls = "ChangedMessage" -> <<"collection", "id">>
      [] cls = "ConnectedMessage" -> <<"session">>
      [] cls = "ErrorMessage" -> <<"reason", "offendingMessage">>
      [] cls = "FailedMessage" -> <<"version">>
      [] cls = "MovedBeforeMessage" -> <<"collection", "id", "before">>
      [] cls = "NosubMessage" -> <<"id">>
      [] cls = "ReadyMessage" -> <<"subs">>
      [] cls = "RemovedMessage" -> <<"collection", "id">>
      [] cls = "ResultMessage" -> <<"id">>
      [] cls = "UpdatedMessage" -> <<"methods">>

\* The keys of the optional fields of each variant, in table order.
TableOptional(cls) ==
    CASE cls = "ConnectMessage" -> <<"support", "session">>
      [] cls = "SubMessage" -> <<"params">>
      [] cls \in {"AddedMessage", "AddedBeforeMessage"} -> <<"fields">>
      [] cls = "ChangedMessage" -> <<"cleared", "fields">>
      [] cls = "NosubMessage" -> <<"error">>
      [] cls = "ResultMessage" -> <<"error", "result">>
      [] OTHER -> <<>>

\* C16: the keys of toPod(m) are `msg`, then the required fields of m's
\* variant in table order, then those optional fields of the variant that
\* m has, in table order; no optional key is emitted with null.
C16_KeyLayout ==
    (MessageRun /\ codecPc = "mid" /\ codecMid.ok) =>
        LET m == codecIn.x.v
            pod == codecMid.v
        IN  /\ KeySequence(pod) =
                   <<"msg">> \o TableRequired(m.cls)
                       \o SelectSeq(TableOptional(m.cls),
                                    LAMBDA k : m[k] # None)
            /\ \A i \in 1..Len(pod) :
                   pod[i].k \in OptionalAttributes(m.cls) => pod[i].v # None

\* toPod by the factories of the message's own side.
OwnPod(message) ==
    IF message.cls \in ClientMessageClasses
    THEN PodClientMessageFactory(message)
    ELSE PodServerMessageFactroy(message)

\* C17: after a caller has mutated the list or mapping it passed to the
\* constructor, or one a property returned, the message has the fields it
\* had, is equal to what it was, and encodes to the same pod.
C17_Immutable ==
    codecPc \in {"argument mutated", "returned mutated"} =>
        /\ codecOut.v = codecIn.x.v
        /\ MessageEq(codecOut.v, codecIn.x.v) = "True"
        /\ OwnPod(codecOut.v) = OwnPod(codecIn.x.v)

\* C18: a == b is True when a and b are of the same variant with every
\* field equal, absent fields included, and False otherwise, also when a
\* and b are of different variants; b == a gives the same answer.
C18_StructuralEquality ==
    codecPc = "compared" =>
        /\ codecMid = Ok(Bool(codecIn.x.v = codecOther))
        /\ codecOut = codecMid

\* ------------------------------------------------------------------------
\* More properties of Future (checked under FairFutureSpec)
\* ------------------------------------------------------------------------

\* C19: a thread inside get, blocked in the condition wait or not, whose
\* future has been set comes back from get.
C19_WakeUp ==
    \A t \in Threads :
        (waiter[t].pc \in {"test", "wait", "return"}
         /\ future[waiter[t].slot].is_set)
            ~> (waiter[t].pc = "done")

\* ------------------------------------------------------------------------
\* Properties of WebSocketClientManager (checked under ManagerSpec)
\* ------------------------------------------------------------------------

\* C20: the socket has been connected when the body of the with statement
\* runs, and close has been called on it when the with statement has
\* ended, whether the body came to its end or raised.
C20_ManagedLifecycle ==
    /\ manager.pc = "body" => transport # "new"
    /\ manager.pc = "exited" => transport \in {"closing", "closed"}

====
